---- MODULE Spec2Model ----
(***************************************************************************)
(* The chat relay of andela-chatbot-app: the POST handler of the chat      *)
(* route (the streaming handler of src/unnamed/part_000 and the earlier    *)
(* handler of src/src/app/api/chat/route.ts), the tool-provider client it  *)
(* calls, and the browser page (src/unnamed/part_001) that consumes the    *)
(* event stream.                                                           *)
(*                                                                         *)
(* Text is a sequence of tokens (strings); "" / <<>> stand for an absent   *)
(* or empty (falsy) value.  One action is one stretch of code between two  *)
(* awaits.                                                                 *)
(*                                                                         *)
(* Spec serves requests end to end.  SpecMerge (fragment merging),         *)
(* SpecPrompt (tone and language of the system prompt), SpecFrame (one     *)
(* event over the wire) and SpecStream (a stream read in chunks) run one   *)
(* part of the code over the inputs it can get.  SpecTurns runs the page   *)
(* over the turns of a conversation.                                       *)
(***************************************************************************)
EXTENDS Integers, Sequences, FiniteSets, TLC

VARIABLES
  handler,      \* which route file serves the request: "part_000" | "route"
  client,       \* who sent the request: "browser" | "other"
  apiKey,       \* process.env.OPENAI_API_KEY is set
  mcpUrl,       \* process.env.MCP_SERVER_URL is set
  body,         \* the request body as sent
  pc,           \* position of the handler
  response,     \* what POST returned (or that it threw)
  bodyRead,     \* request.json() has been called
  frames,       \* frames enqueued on the stream controller, in order
  closes,       \* number of controller.close() calls
  openConns,    \* tool-provider connections connected and not closed
  log,          \* remote operations performed and how they ended, in order
  mcpTools,     \* tools returned by getMcpTools
  completions,  \* completion requests issued, in order
  fullContent,  \* accumulated content of the first stream
  toolCalls,    \* accumulated tool calls (array, possibly with holes)
  toolMessages, \* message list of the follow-up request
  tcPos,        \* number of tool calls the loop has gone through
  nChunks,      \* chunks read from the current completion stream
  nFrags,       \* tool-call fragments the first stream has delivered
  followUpFrags, \* tool-call fragments the follow-up stream has delivered
  messages,     \* browser: the displayed conversation
  status,       \* browser: the status line
  isLoading,    \* browser: a turn is in progress
  bpc,          \* browser: position of handleSubmit
  nRead,        \* browser: frames of the response processed so far
  in1, in2,     \* merge check: the same fragments in two arrival orders
  pos1, pos2,   \* merge check: fragments of each order merged so far
  acc1, acc2,   \* merge check: the accumulator of each order
  reqTone,      \* prompt check: the tone of the request
  reqLanguage,  \* prompt check: the language code of the request
  tonePrompt,   \* prompt check: what getTonePrompt returned
  languageName, \* prompt check: what getLanguageName returned
  toSend,       \* transport check: the events the handler sends, in order
  nSent,        \* transport check: events sent so far
  wire,         \* transport check: the text enqueued on the stream so far
  nDelivered,   \* transport check: length of the text the reader has returned
  buffer,       \* browser: text read and not yet split into frames
  received      \* browser: the events parsed so far, in order

vars == <<handler, client, apiKey, mcpUrl, body, pc, response, bodyRead,
          frames, closes, openConns, log, mcpTools, completions,
          fullContent, toolCalls, toolMessages, tcPos, nChunks, nFrags,
          followUpFrags, messages, status, isLoading, bpc, nRead,
          in1, in2, pos1, pos2, acc1, acc2,
          reqTone, reqLanguage, tonePrompt, languageName,
          toSend, nSent, wire, nDelivered, buffer, received>>

serverVars == <<handler, client, apiKey, mcpUrl, body, pc, response, bodyRead,
                frames, closes, openConns, log, mcpTools, completions,
                fullContent, toolCalls, toolMessages, tcPos, nChunks, nFrags,
                followUpFrags>>

browserVars == <<messages, status, isLoading, bpc, nRead>>

mergeVars == <<in1, in2, pos1, pos2, acc1, acc2>>

promptVars == <<reqTone, reqLanguage, tonePrompt, languageName>>

wireVars == <<toSend, nSent, wire, nDelivered, buffer, received>>

\* the variables of the checks of single functions
unitVars == <<mergeVars, promptVars, wireVars>>

-----------------------------------------------------------------------------
(* Bounds *)

\* chunks the first completion stream delivers at most
MaxChunks == 2

\* chunks the follow-up completion stream delivers at most
MaxFollowUpChunks == 1

-----------------------------------------------------------------------------
(* Values *)

Handlers == {"part_000", "route"}

\* JS undefined for a fragment index
Undefined == -1

\* An Error object: name, HTTP status (0: none), code, message text
Err(n, s, c, m) == [name |-> n, status |-> s, code |-> c, message |-> m]

\* failures the completion API client raises
ApiErrors ==
  { Err("Error", 401, "", <<"401", "Incorrect API key">>),
    Err("Error", 0, "", <<"Unauthorized">>),
    Err("Error", 429, "", <<"429", "quota">>),
    Err("Error", 429, "", <<"429", "request", "401">>),
    Err("Error", 500, "", <<"500", "server">>),
    Err("Error", 0, "ENOTFOUND", <<"getaddrinfo", "ENOTFOUND">>),
    Err("Error", 0, "", <<"Connection error.">>),
    Err("Error", 0, "", <<>>) }

\* failures of the follow-up request: with and without a message
FollowUpErrors ==
  { Err("Error", 429, "", <<"429", "quota">>), Err("Error", 0, "", <<>>) }

\* failures raised while a completion stream is being read
StreamErrors ==
  { Err("TypeError", 0, "", <<"fetch", "failed">>),
    Err("SyntaxError", 0, "", <<"Unexpected", "token", "in", "JSON">>),
    Err("Error", 0, "", <<"terminated">>) }

\* failures raised while the follow-up stream is being read: with and
\* without a message
FollowUpStreamErrors ==
  { Err("TypeError", 0, "", <<"fetch", "failed">>), Err("Error", 0, "", <<>>) }

\* failures of the tool-provider transport
McpErrors == { Err("Error", 0, "", <<"ECONNREFUSED">>) }

\* String.prototype.includes on a text, per token
includes(text, word) == \E i \in 1..Len(text) : text[i] = word

\* String(error)
String(e) == IF e.message = <<>> THEN <<e.name>> ELSE <<e.name, ": ">> \o e.message

\* a message of the conversation
Msg(r, c) == [role |-> r, content |-> c]

\* request bodies: text that is not JSON, the JSON value null, a JSON object
\* without messages, and well-formed chat requests
BadBodies == { [kind |-> "invalid"], [kind |-> "null"], [kind |-> "noMessages"] }

ChatBody(ms, mo, t, l) ==
  [kind |-> "ok", messages |-> ms, model |-> mo, tone |-> t, language |-> l]

OtherBodies ==
  BadBodies \cup
  { ChatBody(<<Msg("user", <<"q">>)>>, "", "friendly", "es"),
    ChatBody(<<Msg("system", <<"s">>), Msg("user", <<"q">>)>>, "x", "pirate", "") }

-----------------------------------------------------------------------------
(* Prompt builder *)

\* keys every object literal inherits from Object.prototype
ObjectPrototypeKeys == {"constructor", "toString", "valueOf", "hasOwnProperty"}

\* a Record<string,string> lookup table[key]: own keys first, then the
\* prototype chain (whose values are functions, hence truthy); <<>> is undefined
Lookup(table, key) ==
  IF key \in DOMAIN table THEN table[key]
  ELSE IF key \in ObjectPrototypeKeys THEN <<"function ", key>>
  ELSE <<>>

tones ==
  [professional |-> <<"Respond in a professional, formal manner.">>,
   friendly |-> <<"Be warm, friendly, and conversational.">>,
   concise |-> <<"Keep responses brief and to the point.">>]

getTonePrompt(tone) ==
  IF Lookup(tones, tone) # <<>> THEN Lookup(tones, tone) ELSE tones.professional

languages ==
  [en |-> <<"English">>, es |-> <<"Spanish">>, fr |-> <<"French">>,
   de |-> <<"German">>, pt |-> <<"Portuguese">>, zh |-> <<"Chinese">>,
   ja |-> <<"Japanese">>, ko |-> <<"Korean">>, ar |-> <<"Arabic">>]

getLanguageName(code) ==
  IF Lookup(languages, code) # <<>> THEN Lookup(languages, code) ELSE <<"English">>

toUpperCase(source) ==
  CASE source = "mcp" -> "MCP"
    [] source = "openai" -> "OPENAI"
    [] OTHER -> source

formatError(source, message, details) ==
  <<"[", toUpperCase(source), "] ", message>>
    \o (IF details # <<>> THEN <<" - ">> \o details ELSE <<>>)

\* the system instruction of each handler
systemPrompt(h, tone, language) ==
  IF h = "part_000"
  THEN <<"You are a helpful customer support agent for TechGear. ">>
         \o getTonePrompt(tone)
         \o <<" IMPORTANT: Always respond in ">> \o getLanguageName(language)
  ELSE <<"You are a helpful customer support agent for TechGear. ">>
         \o getTonePrompt(tone)

\* [system, ...messages.map(role, content)]
buildMessages(h, b) ==
  <<Msg("system", systemPrompt(h, b.tone, b.language))>>
    \o [i \in 1..Len(b.messages) |->
          Msg(b.messages[i].role, b.messages[i].content)]

-----------------------------------------------------------------------------
(* Tool-provider client *)

Tool(n, d, s) == [name |-> n, description |-> d, inputSchema |-> s]

ToolA == Tool("A", "looks up A", "schemaA")
ToolB == Tool("B", "", "")

NoErr == Err("", 0, "", <<>>)

Outcome(k, ts, e) == [kind |-> k, tools |-> ts, err |-> e]

\* what the tool provider does on a listTools session
ListOutcomes ==
  { Outcome("connectFail", <<>>, e) : e \in McpErrors } \cup
  { Outcome("requestFail", <<>>, e) : e \in McpErrors } \cup
  { Outcome("closeFail", <<ToolA, ToolB>>, e) : e \in McpErrors } \cup
  { Outcome("ok", ts, NoErr) : ts \in { <<>>, <<ToolA>>, <<ToolA, ToolB>> } }

\* an entry of the log of remote operations: the call it belongs to (listTools,
\* callTool, or a completion request), the operation, its subject, its result
Ev(call, op, name, ok, e) ==
  [call |-> call, op |-> op, name |-> name, ok |-> ok, err |-> e]

\* the operations one client session performs; the request and the close
\* are reached only if everything before them succeeded
SessionLog(op, name, o) ==
  <<Ev(op, "connect", name, o.kind # "connectFail", NoErr)>>
    \o (IF o.kind # "connectFail"
        THEN <<Ev(op, op, name, o.kind # "requestFail", NoErr)>>
        ELSE <<>>)
    \o (IF o.kind \notin {"connectFail", "requestFail"}
        THEN <<Ev(op, "close", name, o.kind # "closeFail", NoErr)>>
        ELSE <<>>)

\* connections a session leaves connected without a close() call
SessionLeak(o) == IF o.kind = "requestFail" THEN 1 ELSE 0

NoMcpError == [source |-> "", operation |-> "", message |-> "", details |-> <<>>]

\* getMcpTools: {tools, error?}; the earlier handler returns the tools only
getMcpTools(h, o) ==
  IF o.kind = "ok"
  THEN [tools |-> o.tools, error |-> NoMcpError]
  ELSE [tools |-> <<>>,
        error |-> IF h = "part_000"
                  THEN [source |-> "mcp", operation |-> "listTools",
                        message |-> "Failed to connect to MCP server",
                        details |-> o.err.message]
                  ELSE NoMcpError]

\* what the tool provider does on a callTool session: a failure, or a result
\* whose content is a text block, an empty list, or absent
CallOutcomes ==
  { Outcome(k, <<>>, e) : k \in {"connectFail", "requestFail"}, e \in McpErrors } \cup
  { Outcome(k, <<>>, NoErr) : k \in {"text", "empty", "noContent"} }

\* callMcpTool followed by result.content?.map(c => c.text).join("\n")
\*   || JSON.stringify(result)
callMcpToolText(h, toolName, o) ==
  CASE o.kind \in {"connectFail", "requestFail", "closeFail"} ->
         IF h = "part_000"
         THEN <<"MCP tool error (", toolName, "): ">> \o o.err.message
         ELSE <<"Error calling tool: ">> \o String(o.err)
    [] o.kind = "text" -> <<"result of ", toolName>>
    [] o.kind = "empty" -> <<"{\"content\":[]}">>
    [] OTHER -> <<"{}">>

convertMcpToolsToOpenAI(ts) ==
  [i \in 1..Len(ts) |->
     [type |-> "function",
      function |-> [name |-> ts[i].name,
                    description |-> ts[i].description,
                    parameters |-> IF ts[i].inputSchema # "" THEN ts[i].inputSchema
                                   ELSE "{type:object,properties:{}}"]]]

\* NoTools that passes an empty list
NoToolsEmptyList == [present |-> TRUE, list |-> <<>>]

\* the tools parameter left out of a request
NoTools == [present |-> FALSE, list |-> <<>>]

\* toolsParam that passes the list on whatever its length
toolsParamAlways(openaiTools) == [present |-> TRUE, list |-> openaiTools]

\* tools: openaiTools.length > 0 ? openaiTools : undefined
toolsParam(openaiTools) ==
  IF Len(openaiTools) > 0 THEN [present |-> TRUE, list |-> openaiTools] ELSE NoTools

-----------------------------------------------------------------------------
(* Tool-call fragments *)

\* a streamed tool-call fragment; "" / <<>> : the field is absent or empty
Frag(i, id, n, a) == [index |-> i, id |-> id, name |-> n, arguments |-> a]

\* an array slot: a hole (never assigned) or an accumulated tool call
Hole == [hole |-> TRUE, id |-> "", name |-> "", arguments |-> <<>>]
Call(id, n, a) == [hole |-> FALSE, id |-> id, name |-> n, arguments |-> a]

\* toolCalls[i] = v on a JS array (0-based i): the array grows, leaving holes
ArraySet(arr, i, v) ==
  [k \in 1..(IF i + 1 > Len(arr) THEN i + 1 ELSE Len(arr)) |->
     IF k = i + 1 THEN v ELSE IF k <= Len(arr) THEN arr[k] ELSE Hole]

\* !toolCalls[i]
Missing(arr, i) == i + 1 > Len(arr) \/ arr[i + 1].hole

\* MergeFragment that stores a new entry at the end of the array (in arrival
\* order) instead of at the fragment's index
MergeFragmentByArrival(calls, tc) ==
  IF tc.index = Undefined THEN calls
  ELSE IF Missing(calls, tc.index)
  THEN Append(calls, Call(tc.id, tc.name, tc.arguments))
  ELSE LET cur == calls[tc.index + 1]
       IN ArraySet(calls, tc.index,
                   Call(IF tc.id # "" THEN tc.id ELSE cur.id,
                        IF tc.name # "" THEN tc.name ELSE cur.name,
                        cur.arguments \o tc.arguments))

\* MergeFragment that takes id, name and arguments of the latest fragment
MergeFragmentLatest(calls, tc) ==
  IF tc.index = Undefined THEN calls
  ELSE ArraySet(calls, tc.index, Call(tc.id, tc.name, tc.arguments))

\* one fragment merged into the accumulator
MergeFragment(calls, tc) ==
  IF tc.index = Undefined THEN calls
  ELSE LET cur == IF Missing(calls, tc.index)
                  THEN Call(tc.id, tc.name, <<>>)
                  ELSE calls[tc.index + 1]
           new == Call(IF tc.id # "" THEN tc.id ELSE cur.id,
                       IF tc.name # "" THEN tc.name ELSE cur.name,
                       cur.arguments \o tc.arguments)
       IN ArraySet(calls, tc.index, new)

RECURSIVE MergeAll(_, _)
\* for (const tc of delta.tool_calls)
MergeAll(calls, tcs) ==
  IF tcs = <<>> THEN calls
  ELSE MergeAll(MergeFragment(calls, Head(tcs)), Tail(tcs))

\* JsonValid that accepts every text
JsonValidAlways(text) == TRUE

\* JSON.parse succeeds on the text (texts here are made of "{" and "}")
JsonValid(text) == text = <<"{", "}">>

\* tc.arguments || "{}"
ArgsOrDefault(a) == IF a = <<>> THEN <<"{", "}">> ELSE a

RECURSIVE Join(_, _)
\* Array.prototype.join over the names (a hole joins as the empty string)
Join(names, sep) ==
  IF names = <<>> THEN <<>>
  ELSE IF Len(names) = 1 THEN <<Head(names)>>
  ELSE <<Head(names), sep>> \o Join(Tail(names), sep)

\* toolCalls.map(tc => tc.name): map skips holes and keeps them
toolNames(calls) == [i \in 1..Len(calls) |-> calls[i].name]

\* the assistant message listing the tool calls
AssistantMsg(content, calls) ==
  [role |-> "assistant", content |-> content, tool_calls |-> calls]

\* ToolMsg that does not tag the result with the call id
ToolMsgUntagged(id, content) == [role |-> "tool", tool_call_id |-> "", content |-> content]

ToolMsg(id, content) == [role |-> "tool", tool_call_id |-> id, content |-> content]

-----------------------------------------------------------------------------
(* Stream events *)

Frame(t, c) == [type |-> t, content |-> c]
DoneFrame == [type |-> "done"]

\* classifyOpenAI that keeps the initial message whatever the failure
classifyOpenAIGeneric(e) == <<"OpenAI API error">>

\* the classified message of a failed first completion request
classifyOpenAI(e) ==
  IF e.status = 401 \/ includes(e.message, "401") \/ includes(e.message, "Unauthorized")
  THEN <<"OpenAI: Invalid API key. Please check OPENAI_API_KEY.">>
  ELSE IF e.status = 429 \/ includes(e.message, "429")
  THEN <<"OpenAI: Rate limit exceeded. Please try again later.">>
  ELSE IF e.status = 500 \/ includes(e.message, "500")
  THEN <<"OpenAI: Server error. Please try again.">>
  ELSE IF e.code = "ENOTFOUND" \/ includes(e.message, "ENOTFOUND")
  THEN <<"OpenAI: Network error - cannot reach api.openai.com">>
  ELSE <<"OpenAI: ">> \o (IF e.message # <<>> THEN e.message ELSE <<"Unknown error">>)

\* catchFrame that does not look at the message text
catchFrameUnclassified(h, e) ==
  [type |-> "error",
   content |-> IF e.message # <<>> THEN e.message ELSE <<"Unknown error">>,
   errorType |-> "unknown"]

\* the frame the outermost catch enqueues
catchFrame(h, e) ==
  IF h = "route" THEN Frame("error", String(e))
  ELSE LET msg == IF e.message # <<>> THEN e.message ELSE <<"Unknown error">>
       IN IF includes(msg, "fetch") \/ includes(msg, "network") \/ includes(msg, "ENOTFOUND")
          THEN [type |-> "error",
                content |-> <<"Network error: Unable to reach external services. ">> \o msg,
                errorType |-> "network"]
          ELSE IF includes(msg, "JSON")
          THEN [type |-> "error", content |-> <<"Data parsing error: ">> \o msg,
                errorType |-> "parse"]
          ELSE [type |-> "error", content |-> msg, errorType |-> "unknown"]

\* discoveryFrames that reports an empty tool list as a connection
discoveryFramesConnected(r) ==
  IF r.error.source # ""
  THEN <<Frame("warning", <<"MCP: ", r.error.message, " (">> \o r.error.details
                            \o <<"). Proceeding without tools.">>)>>
  ELSE <<Frame("status", <<"MCP: Connected (", ToString(Len(r.tools)), " tools available)">>)>>

\* the frames sent once getMcpTools has returned
discoveryFrames(r) ==
  IF r.error.source # ""
  THEN <<Frame("warning", <<"MCP: ", r.error.message, " (">> \o r.error.details
                            \o <<"). Proceeding without tools.">>)>>
  ELSE IF Len(r.tools) = 0
  THEN <<Frame("warning", <<"MCP: No tools available from server.">>)>>
  ELSE <<Frame("status", <<"MCP: Connected (", ToString(Len(r.tools)), " tools available)">>)>>

\* TypeError raised by reading a property of undefined
PropertyError(prop) ==
  Err("TypeError", 0, "", <<"Cannot read properties of undefined (reading '", prop, "')">>)

-----------------------------------------------------------------------------
(* The request handler *)

Resp(k, st, e) == [kind |-> k, status |-> st, error |-> e]
NoResponse == Resp("none", 0, "")
StreamResponse == Resp("stream", 200, "")
\* POST rejected: the framework answers with its own 500
Unhandled == Resp("unhandled", 500, "")

\* chunks of the first completion stream: content deltas (an empty delta
\* included) and tool-call fragments, also several in one chunk
Chunk(c, tcs) == [content |-> c, tool_calls |-> tcs]

FirstChunks ==
  { Chunk("a", <<>>),
    Chunk("", <<>>),
    Chunk("", <<Frag(0, "c1", "A", <<"{", "}">>)>>),
    Chunk("", <<Frag(0, "c1", "A", <<"{">>)>>),
    Chunk("", <<Frag(0, "", "", <<"}">>)>>),
    Chunk("", <<Frag(1, "c2", "B", <<>>)>>),
    Chunk("", <<Frag(Undefined, "c3", "A", <<>>)>>),
    Chunk("b", <<Frag(0, "c1", "A", <<>>), Frag(1, "c2", "B", <<"}">>)>>) }

\* chunks of the follow-up stream
FollowUpChunks ==
  { Chunk("c", <<>>), Chunk("", <<Frag(0, "c4", "A", <<>>)>>) }

\* the merge check is idle while requests are served
MergeIdle ==
  /\ in1 = <<>> /\ in2 = <<>>
  /\ pos1 = 0 /\ pos2 = 0
  /\ acc1 = <<>> /\ acc2 = <<>>

\* the prompt check is idle while requests are served
PromptIdle ==
  /\ reqTone = "" /\ reqLanguage = ""
  /\ tonePrompt = <<>> /\ languageName = <<>>

\* the transport check is idle while requests are served
WireIdle ==
  /\ toSend = <<>> /\ nSent = 0
  /\ wire = <<>> /\ nDelivered = 0
  /\ buffer = <<>> /\ received = <<>>

ServerIdle ==
  /\ client = "none"
  /\ body = [kind |-> "none"]
  /\ pc = "idle"
  /\ response = NoResponse
  /\ bodyRead = FALSE
  /\ frames = <<>>
  /\ closes = 0
  /\ openConns = 0
  /\ log = <<>>
  /\ mcpTools = <<>>
  /\ completions = <<>>
  /\ fullContent = <<>>
  /\ toolCalls = <<>>
  /\ toolMessages = <<>>
  /\ tcPos = 0
  /\ nChunks = 0
  /\ nFrags = 0
  /\ followUpFrags = 0

BrowserIdle ==
  /\ messages = <<>>
  /\ status = <<>>
  /\ isLoading = FALSE
  /\ bpc = "idle"
  /\ nRead = 0

Init ==
  /\ handler \in Handlers
  /\ apiKey \in BOOLEAN
  /\ mcpUrl \in BOOLEAN
  /\ ServerIdle
  /\ BrowserIdle
  /\ MergeIdle
  /\ PromptIdle
  /\ WireIdle

\* a client other than the page posts a body
OtherRequest ==
  /\ pc = "idle" /\ client = "none"
  /\ client' = "other"
  /\ body' \in OtherBodies
  /\ pc' = "arrived"
  /\ UNCHANGED <<followUpFrags, handler, apiKey, mcpUrl, response, bodyRead, frames, closes,
                 openConns, log, mcpTools, completions, fullContent,
                 toolCalls, toolMessages, tcPos, nChunks, nFrags>>
  /\ UNCHANGED browserVars
  /\ UNCHANGED unitVars

\* configError with the check of the tool-provider endpoint left out
configErrorKeyOnly(h, key, url) ==
  IF ~key
  THEN (IF h = "part_000" THEN "OPENAI_API_KEY environment variable is not set"
        ELSE "API key not configured")
  ELSE ""

\* the error of the configuration checks, "" if both values are set
configError(h, key, url) ==
  IF ~key
  THEN (IF h = "part_000" THEN "OPENAI_API_KEY environment variable is not set"
        ELSE "API key not configured")
  ELSE IF ~url
  THEN (IF h = "part_000" THEN "MCP_SERVER_URL environment variable is not set"
        ELSE "MCP server URL not configured")
  ELSE ""

\* POST up to its first await: the configuration checks, then request.json()
POST ==
  /\ pc = "arrived"
  /\ IF configError(handler, apiKey, mcpUrl) # ""
     THEN /\ response' = Resp("json", 500, configError(handler, apiKey, mcpUrl))
          /\ pc' = "returned"
          /\ bodyRead' = bodyRead
     ELSE /\ response' = response
          /\ pc' = "body"
          /\ bodyRead' = TRUE
  /\ UNCHANGED <<followUpFrags, handler, client, apiKey, mcpUrl, body, frames, closes,
                 openConns, log, mcpTools, completions, fullContent,
                 toolCalls, toolMessages, tcPos, nChunks, nFrags>>
  /\ UNCHANGED browserVars
  /\ UNCHANGED unitVars

\* Caught that leaves the stream open
CaughtOpen(e) ==
  /\ frames' = Append(frames, catchFrame(handler, e))
  /\ closes' = closes
  /\ pc' = "closed"

\* the outermost catch: one error frame, then close
Caught(e) ==
  /\ frames' = Append(frames, catchFrame(handler, e))
  /\ closes' = closes + 1
  /\ pc' = "closed"

\* send({ type: "done" }); controller.close()
Finish(fr) ==
  /\ frames' = Append(fr, DoneFrame)
  /\ closes' = closes + 1
  /\ pc' = "closed"

\* request.json() settles; part_000 then opens the stream, whose start()
\* runs up to the await of getMcpTools
ReadBody ==
  /\ pc = "body"
  /\ IF handler = "part_000"
     THEN CASE body.kind = "invalid" ->
                 /\ response' = Resp("json", 400, "Invalid JSON in request body")
                 /\ pc' = "returned"
                 /\ frames' = frames
            [] body.kind = "null" ->
                 /\ response' = Unhandled
                 /\ pc' = "returned"
                 /\ frames' = frames
            [] OTHER ->
                 /\ response' = StreamResponse
                 /\ frames' = Append(frames, Frame("status", <<"Connecting to MCP server...">>))
                 /\ pc' = "discover"
     ELSE /\ frames' = frames
          /\ IF body.kind \in {"invalid", "null"}
             THEN response' = Unhandled /\ pc' = "returned"
             ELSE response' = response /\ pc' = "discover"
  /\ UNCHANGED <<followUpFrags, handler, client, apiKey, mcpUrl, body, bodyRead, closes,
                 openConns, log, mcpTools, completions, fullContent,
                 toolCalls, toolMessages, tcPos, nChunks, nFrags>>
  /\ UNCHANGED browserVars
  /\ UNCHANGED unitVars

\* getMcpTools returns; the handler goes on to the await of the first
\* completion request
Discover ==
  /\ pc = "discover"
  /\ \E o \in ListOutcomes :
       LET r == getMcpTools(handler, o) IN
       /\ log' = log \o SessionLog("listTools", "", o)
       /\ openConns' = openConns + SessionLeak(o)
       /\ mcpTools' = r.tools
       /\ IF handler = "part_000"
          THEN /\ response' = response
               /\ IF body.kind = "noMessages"
                  THEN /\ frames' = (frames \o discoveryFrames(r))
                                      \o <<catchFrame(handler, PropertyError("map"))>>
                       /\ closes' = closes + 1
                       /\ pc' = "closed"
                  ELSE /\ frames' = (frames \o discoveryFrames(r))
                                      \o <<Frame("status", <<"Connecting to OpenAI...">>)>>
                       /\ closes' = closes
                       /\ pc' = "first"
          ELSE /\ frames' = frames
               /\ closes' = closes
               /\ IF body.kind = "noMessages"
                  THEN response' = Unhandled /\ pc' = "returned"
                  ELSE response' = StreamResponse /\ pc' = "first"
  /\ UNCHANGED <<followUpFrags, handler, client, apiKey, mcpUrl, body, bodyRead, completions,
                 fullContent, toolCalls, toolMessages, tcPos, nChunks, nFrags>>
  /\ UNCHANGED browserVars
  /\ UNCHANGED unitVars

Request(ms, ts) == [messages |-> ms, tools |-> ts]

\* openai.chat.completions.create for the first request settles
FirstCompletion ==
  /\ pc = "first"
  /\ completions' = Append(completions,
                      Request(buildMessages(handler, body),
                              toolsParam(convertMcpToolsToOpenAI(mcpTools))))
  /\ \/ /\ pc' = "stream1"
        /\ log' = Append(log, Ev("completion", "create", "first", TRUE, NoErr))
        /\ UNCHANGED <<frames, closes>>
     \/ \E e \in ApiErrors :
          /\ log' = Append(log, Ev("completion", "create", "first", FALSE, e))
          /\ IF handler = "part_000"
             THEN /\ frames' = Append(frames, Frame("error", classifyOpenAI(e)))
                  /\ closes' = closes + 1
                  /\ pc' = "closed"
             ELSE Caught(e)
  /\ UNCHANGED <<followUpFrags, handler, client, apiKey, mcpUrl, body, response, bodyRead,
                 openConns, mcpTools, fullContent, toolCalls,
                 toolMessages, tcPos, nChunks, nFrags>>
  /\ UNCHANGED browserVars
  /\ UNCHANGED unitVars

\* one chunk of the first stream: content is sent on, fragments are merged
FirstChunk ==
  /\ pc = "stream1" /\ nChunks < MaxChunks
  /\ \E ch \in FirstChunks :
       /\ fullContent' = (IF ch.content # "" THEN Append(fullContent, ch.content)
                          ELSE fullContent)
       /\ frames' = (IF ch.content # ""
                     THEN Append(frames, Frame("content", <<ch.content>>))
                     ELSE frames)
       /\ toolCalls' = MergeAll(toolCalls, ch.tool_calls)
       /\ nFrags' = nFrags + Len(ch.tool_calls)
  /\ nChunks' = nChunks + 1
  /\ UNCHANGED <<followUpFrags, handler, client, apiKey, mcpUrl, body, pc, response, bodyRead,
                 closes, openConns, log, mcpTools, completions,
                 toolMessages, tcPos>>
  /\ UNCHANGED browserVars
  /\ UNCHANGED unitVars

\* reading the first stream throws
FirstStreamFail ==
  /\ pc = "stream1"
  /\ \E e \in StreamErrors :
       /\ Caught(e)
       /\ log' = Append(log, Ev("completion", "stream", "first", FALSE, e))
  /\ UNCHANGED <<followUpFrags, handler, client, apiKey, mcpUrl, body, response, bodyRead,
                 openConns, mcpTools, completions, fullContent,
                 toolCalls, toolMessages, tcPos, nChunks, nFrags>>
  /\ UNCHANGED browserVars
  /\ UNCHANGED unitVars

\* the status frame announcing the tool round trip
usingToolsFrame(h, calls) ==
  IF h = "part_000"
  THEN Frame("status", <<"Using tools: ">> \o Join(toolNames(calls), ", "))
  ELSE Frame("status", <<"Using tools...">>)

\* hasToolCalls with >= for >
hasToolCallsAlways(calls) == Len(calls) >= 0

\* toolCalls.length > 0
hasToolCalls(calls) == Len(calls) > 0

\* the first stream ends: either done, or the tool round trip starts
FirstStreamEnd ==
  /\ pc = "stream1"
  /\ log' = Append(log, Ev("completion", "stream", "first", TRUE, NoErr))
  /\ IF hasToolCalls(toolCalls)
     THEN /\ frames' = Append(frames, usingToolsFrame(handler, toolCalls))
          /\ toolMessages' = Append(buildMessages(handler, body),
                                    AssistantMsg(fullContent, toolCalls))
          /\ pc' = IF Len(toolCalls) > 0 THEN "tools" ELSE "followup"
          /\ closes' = closes
     ELSE /\ Finish(frames)
          /\ toolMessages' = toolMessages
  /\ nChunks' = 0
  /\ UNCHANGED <<followUpFrags, handler, client, apiKey, mcpUrl, body, response, bodyRead,
                 openConns, mcpTools, completions, fullContent,
                 toolCalls, tcPos, nFrags>>
  /\ UNCHANGED browserVars
  /\ UNCHANGED unitVars

\* SyntaxError of JSON.parse
JsonError == Err("SyntaxError", 0, "", <<"Unexpected end of JSON input">>)

\* the tool-result text of the inner catch
toolCatchText(h, name, e) ==
  IF h = "part_000"
  THEN formatError("mcp", "Tool " \o name \o " failed", e.message)
  ELSE <<"Error: ">> \o String(e)

\* afterToolCall that leaves the loop after one tool call
afterToolCallLeave(pos, n) == "followup"

\* where the handler is after pos of n tool calls: in the loop, or at the
\* follow-up request
afterToolCall(pos, n) == IF pos = n THEN "followup" ELSE "tools"

\* one iteration of for (const tc of toolCalls)
ToolCall ==
  /\ pc = "tools" /\ tcPos < Len(toolCalls)
  /\ LET tc == toolCalls[tcPos + 1] IN
       IF tc.hole
       THEN \* tc is undefined: tc.arguments throws, and so does tc.id in the catch
            /\ Caught(PropertyError("id"))
            /\ UNCHANGED <<toolMessages, tcPos, log, openConns>>
       ELSE IF ~JsonValid(ArgsOrDefault(tc.arguments))
       THEN /\ toolMessages' = Append(toolMessages,
                                 ToolMsg(tc.id, toolCatchText(handler, tc.name, JsonError)))
            /\ tcPos' = tcPos + 1
            /\ pc' = afterToolCall(tcPos + 1, Len(toolCalls))
            /\ UNCHANGED <<frames, closes, log, openConns>>
       ELSE \E o \in CallOutcomes :
            /\ log' = log \o SessionLog("callTool", tc.name, o)
            /\ openConns' = openConns + SessionLeak(o)
            /\ toolMessages' = Append(toolMessages,
                                 ToolMsg(tc.id, callMcpToolText(handler, tc.name, o)))
            /\ tcPos' = tcPos + 1
            /\ pc' = afterToolCall(tcPos + 1, Len(toolCalls))
            /\ UNCHANGED <<frames, closes>>
  /\ UNCHANGED <<followUpFrags, handler, client, apiKey, mcpUrl, body, response, bodyRead,
                 mcpTools, completions, fullContent, toolCalls, nChunks, nFrags>>
  /\ UNCHANGED browserVars
  /\ UNCHANGED unitVars

\* the failure of the follow-up request or of its stream: part_000 reports
\* it and finishes, the earlier handler leaves it to the outermost catch
followUpCatchFrames(h, e) ==
  IF h = "part_000"
  THEN <<Frame("error", formatError("openai", "Follow-up request failed", e.message)),
         DoneFrame>>
  ELSE <<catchFrame(h, e)>>

FollowUpCaught(e) ==
  /\ frames' = frames \o followUpCatchFrames(handler, e)
  /\ closes' = closes + 1
  /\ pc' = "closed"

\* openai.chat.completions.create for the follow-up request settles
FollowUp ==
  /\ pc = "followup"
  /\ completions' = Append(completions, Request(toolMessages, NoTools))
  /\ \/ /\ pc' = "stream2"
        /\ log' = Append(log, Ev("completion", "create", "followup", TRUE, NoErr))
        /\ UNCHANGED <<frames, closes>>
     \/ \E e \in FollowUpErrors :
          /\ log' = Append(log, Ev("completion", "create", "followup", FALSE, e))
          /\ FollowUpCaught(e)
  /\ UNCHANGED <<followUpFrags, handler, client, apiKey, mcpUrl, body, response, bodyRead,
                 openConns, mcpTools, fullContent, toolCalls,
                 toolMessages, tcPos, nChunks, nFrags>>
  /\ UNCHANGED browserVars
  /\ UNCHANGED unitVars

\* one chunk of the follow-up stream: only its content is looked at
FollowUpChunk ==
  /\ pc = "stream2" /\ nChunks < MaxFollowUpChunks
  /\ \E ch \in FollowUpChunks :
       /\ frames' = (IF ch.content # ""
                     THEN Append(frames, Frame("content", <<ch.content>>))
                     ELSE frames)
       /\ followUpFrags' = followUpFrags + Len(ch.tool_calls)
  /\ nChunks' = nChunks + 1
  /\ UNCHANGED <<handler, client, apiKey, mcpUrl, body, pc, response, bodyRead,
                 closes, openConns, log, mcpTools, completions, fullContent,
                 toolCalls, toolMessages, tcPos, nFrags>>
  /\ UNCHANGED browserVars
  /\ UNCHANGED unitVars

\* reading the follow-up stream throws
FollowUpStreamFail ==
  /\ pc = "stream2"
  /\ \E e \in FollowUpStreamErrors :
       /\ log' = Append(log, Ev("completion", "stream", "followup", FALSE, e))
       /\ FollowUpCaught(e)
  /\ UNCHANGED <<followUpFrags, handler, client, apiKey, mcpUrl, body, response, bodyRead,
                 openConns, mcpTools, completions, fullContent,
                 toolCalls, toolMessages, tcPos, nChunks, nFrags>>
  /\ UNCHANGED browserVars
  /\ UNCHANGED unitVars

\* the follow-up stream ends
FollowUpEnd ==
  /\ pc = "stream2"
  /\ log' = Append(log, Ev("completion", "stream", "followup", TRUE, NoErr))
  /\ Finish(frames)
  /\ UNCHANGED <<followUpFrags, handler, client, apiKey, mcpUrl, body, response, bodyRead,
                 openConns, mcpTools, completions, fullContent,
                 toolCalls, toolMessages, tcPos, nChunks, nFrags>>
  /\ UNCHANGED browserVars
  /\ UNCHANGED unitVars

-----------------------------------------------------------------------------
(* The browser page *)

BMsg(id, r, c) == [id |-> id, role |-> r, content |-> c]

\* the settings the page starts with
settings == [model |-> "gpt-5.2", tone |-> "professional"]

\* prev.map(m => m.id === id ? { ...m, content: m.content + text } : m)
appendContent(ms, id, text) ==
  [i \in 1..Len(ms) |->
     IF ms[i].id = id THEN [ms[i] EXCEPT !.content = ms[i].content \o text] ELSE ms[i]]

\* prev.map(m => m.id === id ? { ...m, role: "error", content: text } : m)
setError(ms, id, text) ==
  [i \in 1..Len(ms) |->
     IF ms[i].id = id THEN [ms[i] EXCEPT !.role = "error", !.content = text] ELSE ms[i]]

\* id of the in-progress assistant message of the current turn
AssistantId == Len(messages)

\* [...messages, userMessage].map(m => ({role, content}))
requestMessages(ms) == [i \in 1..Len(ms) |-> Msg(ms[i].role, ms[i].content)]

\* handleSubmit up to the await of fetch: the user message and the empty
\* assistant message are appended, the conversation is posted
Submit ==
  /\ bpc = "idle" /\ ~isLoading /\ pc = "idle" /\ client = "none"
  /\ LET userMessage == BMsg(Len(messages) + 1, "user", <<"q">>)
         assistantMessage == BMsg(Len(messages) + 2, "assistant", <<>>)
     IN /\ messages' = messages \o <<userMessage, assistantMessage>>
        /\ body' = ChatBody(requestMessages(Append(messages, userMessage)),
                            settings.model, settings.tone, "")
  /\ isLoading' = TRUE
  /\ bpc' = "fetching"
  /\ client' = "browser"
  /\ pc' = "arrived"
  /\ UNCHANGED <<status, nRead>>
  /\ UNCHANGED <<followUpFrags, handler, apiKey, mcpUrl, response, bodyRead, frames, closes,
                 openConns, log, mcpTools, completions, fullContent,
                 toolCalls, toolMessages, tcPos, nChunks, nFrags>>
  /\ UNCHANGED unitVars

\* catch + finally of handleSubmit
ConnectionFailed(text) ==
  /\ messages' = setError(messages, AssistantId, <<"Connection failed: ", text>>)
  /\ isLoading' = FALSE
  /\ status' = <<>>
  /\ bpc' = "done"

\* fetch resolves with the handler's response
FetchResponse ==
  /\ bpc = "fetching" /\ response.kind # "none"
  /\ IF response.status = 200
     THEN /\ bpc' = "reading"
          /\ UNCHANGED <<messages, status, isLoading>>
     ELSE ConnectionFailed("Failed to send message")
  /\ UNCHANGED nRead
  /\ UNCHANGED serverVars
  /\ UNCHANGED unitVars

\* the effect of one parsed event on the message list
onEvent(ms, id, data) ==
  CASE data.type = "content" -> appendContent(ms, id, data.content)
    [] data.type = "error" -> setError(ms, id, data.content)
    [] OTHER -> ms

\* the effect of one parsed event on the status line
statusAfter(st, data) ==
  CASE data.type = "status" -> data.content
    [] data.type = "warning" -> <<"warning: ">> \o data.content
    [] data.type \in {"content", "error", "done"} -> <<>>
    [] OTHER -> st

\* the next frame of the stream is read and handled
ReadFrame ==
  /\ bpc = "reading" /\ nRead < Len(frames)
  /\ messages' = onEvent(messages, AssistantId, frames[nRead + 1])
  /\ status' = statusAfter(status, frames[nRead + 1])
  /\ nRead' = nRead + 1
  /\ UNCHANGED <<isLoading, bpc>>
  /\ UNCHANGED serverVars
  /\ UNCHANGED unitVars

\* reader.read() reports done: the loop breaks, finally runs
ReadDone ==
  /\ bpc = "reading" /\ nRead = Len(frames) /\ closes > 0
  /\ isLoading' = FALSE
  /\ status' = <<>>
  /\ bpc' = "done"
  /\ UNCHANGED <<messages, nRead>>
  /\ UNCHANGED serverVars
  /\ UNCHANGED unitVars

-----------------------------------------------------------------------------

Next ==
  \/ OtherRequest
  \/ POST
  \/ ReadBody
  \/ Discover
  \/ FirstCompletion
  \/ FirstChunk
  \/ FirstStreamFail
  \/ FirstStreamEnd
  \/ ToolCall
  \/ FollowUp
  \/ FollowUpChunk
  \/ FollowUpStreamFail
  \/ FollowUpEnd
  \/ Submit
  \/ FetchResponse
  \/ ReadFrame
  \/ ReadDone

Spec == Init /\ [][Next]_vars

-----------------------------------------------------------------------------
(* Fragment merging on its own: the same fragments merged in two orders *)

\* fragments merged at most
MaxFrags == 3

MergeFrags ==
  { Frag(0, "c1", "A", <<"{">>),
    Frag(0, "", "", <<"}">>),
    Frag(0, "c2", "", <<>>),
    Frag(0, "", "B", <<"{", "}">>),
    Frag(1, "c3", "B", <<"}">>),
    Frag(1, "", "", <<"{">>),
    Frag(1, "c1", "A", <<>>),
    Frag(Undefined, "c9", "Z", <<"{">>) }

\* the arrival orders of the fragments of s
Orders(s) ==
  { [i \in 1..Len(s) |-> s[p[i]]] :
      p \in { q \in [1..Len(s) -> 1..Len(s)] :
                \A i, j \in 1..Len(s) : q[i] = q[j] => i = j } }

InitMerge ==
  /\ handler = "part_000"
  /\ apiKey = TRUE
  /\ mcpUrl = TRUE
  /\ ServerIdle
  /\ BrowserIdle
  /\ \E n \in 1..MaxFrags : in1 \in [1..n -> MergeFrags]
  /\ in2 \in Orders(in1)
  /\ pos1 = 0 /\ pos2 = 0
  /\ acc1 = <<>> /\ acc2 = <<>>
  /\ PromptIdle
  /\ WireIdle

\* the next fragment of the first order is merged
Merge1 ==
  /\ pos1 < Len(in1)
  /\ acc1' = MergeFragment(acc1, in1[pos1 + 1])
  /\ pos1' = pos1 + 1
  /\ UNCHANGED <<in1, in2, pos2, acc2>>
  /\ UNCHANGED serverVars
  /\ UNCHANGED browserVars
  /\ UNCHANGED <<promptVars, wireVars>>

\* the next fragment of the second order is merged
Merge2 ==
  /\ pos1 = Len(in1) /\ pos2 < Len(in2)
  /\ acc2' = MergeFragment(acc2, in2[pos2 + 1])
  /\ pos2' = pos2 + 1
  /\ UNCHANGED <<in1, in2, pos1, acc1>>
  /\ UNCHANGED serverVars
  /\ UNCHANGED browserVars
  /\ UNCHANGED <<promptVars, wireVars>>

NextMerge == Merge1 \/ Merge2

SpecMerge == InitMerge /\ [][NextMerge]_vars

-----------------------------------------------------------------------------
(* The prompt builder on its own: tone and language of the request body *)

\* tone values of a request body: the three tones, absent, and other strings
ToneInputs ==
  { "professional", "friendly", "concise", "", "pirate", "Friendly",
    "constructor", "toString", "valueOf" }

\* language codes of a request body: the nine codes, absent, and other strings
LanguageInputs ==
  DOMAIN languages \cup { "", "xx", "EN", "constructor", "hasOwnProperty" }

InitPrompt ==
  /\ handler = "part_000"
  /\ apiKey = TRUE
  /\ mcpUrl = TRUE
  /\ ServerIdle
  /\ BrowserIdle
  /\ MergeIdle
  /\ WireIdle
  /\ reqTone \in ToneInputs
  /\ reqLanguage \in LanguageInputs
  /\ tonePrompt = <<>> /\ languageName = <<>>

\* the system prompt is built: getTonePrompt(tone), getLanguageName(language)
BuildPrompt ==
  /\ tonePrompt = <<>>
  /\ tonePrompt' = getTonePrompt(reqTone)
  /\ languageName' = getLanguageName(reqLanguage)
  /\ UNCHANGED <<reqTone, reqLanguage>>
  /\ UNCHANGED serverVars
  /\ UNCHANGED browserVars
  /\ UNCHANGED <<mergeVars, wireVars>>

NextPrompt == BuildPrompt

SpecPrompt == InitPrompt /\ [][NextPrompt]_vars

-----------------------------------------------------------------------------
(* The event stream on the wire: send on the handler's side, the reader     *)
(* loop on the page's side.  The text on the wire is a sequence of          *)
(* characters; the marker "data: " (6 characters) and the words of the JSON *)
(* text are one token each.                                                  *)

\* length of the payload text of an event at most
MaxText == 2

\* events before the closing events of a stream at most
MaxEvents == 2

\* newline, backslash, double quote
NL == "\n"
BS == "\\"
Q == "\""

\* the marker that opens a frame
Marker == "data: "

\* Escape that copies every character
EscapeRaw(text) == text

RECURSIVE Escape(_)
\* JSON.stringify on the characters of a string
Escape(text) ==
  IF text = <<>> THEN <<>>
  ELSE (CASE Head(text) = NL -> <<BS, "n">>
          [] Head(text) = Q -> <<BS, Q>>
          [] Head(text) = BS -> <<BS, BS>>
          [] OTHER -> <<Head(text)>>) \o Escape(Tail(text))

\* JSON.stringify of a string
StringLit(text) == <<Q>> \o Escape(text) \o <<Q>>

\* JSON.stringify(data): the members of the event in insertion order
JSONstringify(data) ==
  <<"{">> \o StringLit(<<"type">>) \o <<":">> \o StringLit(<<data.type>>)
    \o (IF "content" \in DOMAIN data
        THEN <<",">> \o StringLit(<<"content">>) \o <<":">> \o StringLit(data.content)
        ELSE <<>>)
    \o (IF "errorType" \in DOMAIN data
        THEN <<",">> \o StringLit(<<"errorType">>) \o <<":">> \o StringLit(<<data.errorType>>)
        ELSE <<>>)
    \o <<"}">>

\* the text send(data) enqueues: `data: ${JSON.stringify(data)}\n\n`
send(data) == <<Marker>> \o JSONstringify(data) \o <<NL, NL>>

\* JSON.parse throws
ParseFail == [ok |-> FALSE, text |-> <<>>, next |-> 0, fields |-> <<>>]

RECURSIVE ReadChars(_, _, _)
\* JSON.parse inside a string literal: the characters from position j up to
\* the closing quote, escapes undone
ReadChars(ts, j, acc) ==
  IF j > Len(ts) THEN ParseFail
  ELSE IF ts[j] = Q
  THEN [ok |-> TRUE, text |-> acc, next |-> j + 1, fields |-> <<>>]
  ELSE IF ts[j] = NL THEN ParseFail
  ELSE IF ts[j] = BS
  THEN IF j + 1 > Len(ts) THEN ParseFail
       ELSE IF ts[j + 1] = "n" THEN ReadChars(ts, j + 2, Append(acc, NL))
       ELSE IF ts[j + 1] \in {Q, BS} THEN ReadChars(ts, j + 2, Append(acc, ts[j + 1]))
       ELSE ParseFail
  ELSE ReadChars(ts, j + 1, Append(acc, ts[j]))

\* JSON.parse of a string literal that starts at position j
ReadString(ts, j) ==
  IF j <= Len(ts) /\ ts[j] = Q THEN ReadChars(ts, j + 1, <<>>) ELSE ParseFail

RECURSIVE ReadFields(_, _, _)
\* JSON.parse of the members of an object from position j up to its brace,
\* which ends the text
ReadFields(ts, j, acc) ==
  LET k == ReadString(ts, j) IN
  IF ~k.ok \/ k.next > Len(ts) \/ ts[k.next] # ":" THEN ParseFail
  ELSE LET v == ReadString(ts, k.next + 1) IN
       IF ~v.ok \/ v.next > Len(ts) THEN ParseFail
       ELSE IF ts[v.next] = ","
       THEN ReadFields(ts, v.next + 1, Append(acc, <<k.text, v.text>>))
       ELSE IF ts[v.next] = "}" /\ v.next = Len(ts)
       THEN [ok |-> TRUE, text |-> <<>>, next |-> v.next + 1,
             fields |-> Append(acc, <<k.text, v.text>>)]
       ELSE ParseFail

\* a one-word string as the word
Word(text) == IF Len(text) = 1 THEN text[1] ELSE ""

\* the object with the members read: the content as text, type and
\* errorType as words; of two members with one key the later counts
ObjectOf(fields) ==
  [k \in { Word(fields[i][1]) : i \in 1..Len(fields) } |->
     LET i == CHOOSE x \in 1..Len(fields) :
                /\ Word(fields[x][1]) = k
                /\ \A y \in 1..Len(fields) : Word(fields[y][1]) = k => y <= x
     IN IF k = "content" THEN fields[i][2] ELSE Word(fields[i][2])]

\* JSON.parse(text) of an object of strings: {ok, fields}
JSONparse(ts) ==
  IF ts # <<>> /\ ts[1] = "{" THEN ReadFields(ts, 2, <<>>) ELSE ParseFail

RECURSIVE Split(_, _, _)
\* text.split("\n\n"): the pieces between the terminators found from left
\* to right (cur: the piece being read, acc: the pieces before it)
Split(ts, cur, acc) ==
  IF ts = <<>> THEN Append(acc, cur)
  ELSE IF Len(ts) >= 2 /\ ts[1] = NL /\ ts[2] = NL
  THEN Split(SubSeq(ts, 3, Len(ts)), <<>>, Append(acc, cur))
  ELSE Split(Tail(ts), Append(cur, Head(ts)), acc)

\* what the page has after some lines: messages, status, events, and
\* whether JSON.parse threw
PageState(ms, st, rc, f) == [messages |-> ms, status |-> st, received |-> rc, failed |-> f]

RECURSIVE Consume(_, _, _)
\* for (const line of lines): a line that starts with the marker is parsed
\* from its 7th character on and handled
Consume(lines, id, ps) ==
  IF lines = <<>> \/ ps.failed THEN ps
  ELSE LET line == Head(lines) IN
       IF line # <<>> /\ Head(line) = Marker
       THEN LET p == JSONparse(Tail(line)) IN
            IF ~p.ok THEN [ps EXCEPT !.failed = TRUE]
            ELSE LET data == ObjectOf(p.fields) IN
                 Consume(Tail(lines), id,
                         PageState(onEvent(ps.messages, id, data),
                                   statusAfter(ps.status, data),
                                   Append(ps.received, data), FALSE))
       ELSE Consume(Tail(lines), id, ps)

\* the handler sends its next event
SendEvent ==
  /\ nSent < Len(toSend)
  /\ wire' = wire \o send(toSend[nSent + 1])
  /\ nSent' = nSent + 1
  /\ UNCHANGED <<toSend, nDelivered, buffer, received>>
  /\ UNCHANGED serverVars
  /\ UNCHANGED browserVars
  /\ UNCHANGED <<mergeVars, promptVars>>

\* reader.read() returns a chunk - any piece of the text enqueued and not yet
\* read: it is added to the buffer, the buffer is split, the last piece is
\* kept and the lines before it are handled
ReadChunk ==
  /\ bpc = "reading"
  /\ \E n \in (nDelivered + 1)..Len(wire) :
       \E lines \in {Split(buffer \o SubSeq(wire, nDelivered + 1, n), <<>>, <<>>)} :
       \E ps \in {Consume(SubSeq(lines, 1, Len(lines) - 1), AssistantId,
                           PageState(messages, status, received, FALSE))} :
          /\ nDelivered' = n
          /\ buffer' = lines[Len(lines)]
          /\ received' = ps.received
          /\ IF ps.failed
             THEN /\ messages' = setError(ps.messages, AssistantId,
                                          <<"Connection failed: ", "Unexpected token">>)
                  /\ status' = <<>>
                  /\ isLoading' = FALSE
                  /\ bpc' = "done"
             ELSE /\ messages' = ps.messages
                  /\ status' = ps.status
                  /\ UNCHANGED <<isLoading, bpc>>
  /\ UNCHANGED <<toSend, nSent, wire, nRead>>
  /\ UNCHANGED serverVars
  /\ UNCHANGED <<mergeVars, promptVars>>

\* reader.read() reports done after the stream was closed and read
ReadEnd ==
  /\ bpc = "reading"
  /\ nSent = Len(toSend) /\ nDelivered = Len(wire)
  /\ isLoading' = FALSE
  /\ status' = <<>>
  /\ bpc' = "done"
  /\ UNCHANGED <<messages, nRead>>
  /\ UNCHANGED wireVars
  /\ UNCHANGED serverVars
  /\ UNCHANGED <<mergeVars, promptVars>>

NextWire == SendEvent \/ ReadChunk \/ ReadEnd

\* the page has posted a turn and reads the response
PageReading ==
  /\ messages = <<BMsg(1, "user", <<"q">>), BMsg(2, "assistant", <<>>)>>
  /\ status = <<>>
  /\ isLoading = TRUE
  /\ bpc = "reading"
  /\ nRead = 0

\* nothing sent and nothing read yet
WireStart ==
  /\ handler = "part_000"
  /\ apiKey = TRUE
  /\ mcpUrl = TRUE
  /\ ServerIdle
  /\ PageReading
  /\ MergeIdle
  /\ PromptIdle
  /\ nSent = 0 /\ wire = <<>> /\ nDelivered = 0
  /\ buffer = <<>> /\ received = <<>>

\* characters of a payload: a letter, the characters JSON escapes, the
\* marker, a brace
WireChars == { "n", NL, BS, Q, Marker, "}" }

\* the payload texts
Texts == UNION { [1..n -> WireChars] : n \in 1..MaxText }

\* the events send is called with: every kind, every payload
FrameEvents ==
  { Frame(t, c) : t \in {"status", "content", "warning", "error"}, c \in Texts }
    \cup { [type |-> "error", content |-> c, errorType |-> "network"] : c \in Texts }
    \cup { DoneFrame }

\* one event goes over the wire
InitFrame ==
  /\ WireStart
  /\ \E ev \in FrameEvents : toSend = <<ev>>

SpecFrame == InitFrame /\ [][NextWire]_vars

\* events of a stream before its closing events
StreamEvents ==
  { Frame("status", <<"s">>),
    Frame("warning", <<Q, "w">>),
    Frame("content", <<"a">>),
    Frame("content", <<"b", NL, NL, Marker>>) }

\* how a stream closes: done; the error of the outermost catch; the error of
\* the follow-up and done
StreamEndings ==
  { <<DoneFrame>>,
    <<[type |-> "error", content |-> <<"E">>, errorType |-> "unknown"]>>,
    <<Frame("error", <<"E">>), DoneFrame>> }

\* a whole stream goes over the wire
InitStream ==
  /\ WireStart
  /\ \E n \in 0..MaxEvents : \E lead \in [1..n -> StreamEvents] :
       \E end \in StreamEndings : toSend = lead \o end

SpecStream == InitStream /\ [][NextWire]_vars

-----------------------------------------------------------------------------
(* The page across turns: every turn posts the whole message list; the      *)
(* handler is taken by what it returns - a response that is not ok, or a    *)
(* stream of events.                                                         *)

\* turns of a conversation at most
MaxTurns == 2

\* events of a turn's stream before its closing events at most
MaxTurnEvents == 1

\* the streams a turn can be answered with
TurnStreams ==
  { lead \o end : lead \in UNION { [1..n -> StreamEvents] : n \in 0..MaxTurnEvents },
                  end \in StreamEndings }

InitTurns ==
  /\ handler \in Handlers
  /\ apiKey \in BOOLEAN
  /\ mcpUrl = TRUE
  /\ ServerIdle
  /\ BrowserIdle
  /\ MergeIdle
  /\ PromptIdle
  /\ WireIdle

\* handleSubmit of any turn up to the await of fetch: the guard, the two
\* messages appended, the whole list posted in a new request
SubmitTurn ==
  /\ bpc \in {"idle", "done"} /\ ~isLoading
  /\ Len(messages) < 2 * MaxTurns
  /\ LET userMessage == BMsg(Len(messages) + 1, "user", <<"q">>)
         assistantMessage == BMsg(Len(messages) + 2, "assistant", <<>>)
     IN /\ messages' = messages \o <<userMessage, assistantMessage>>
        /\ body' = ChatBody(requestMessages(Append(messages, userMessage)),
                            settings.model, settings.tone, "")
  /\ isLoading' = TRUE
  /\ bpc' = "fetching"
  /\ client' = "browser"
  /\ pc' = "arrived"
  /\ response' = NoResponse
  /\ frames' = <<>>
  /\ closes' = 0
  /\ nRead' = 0
  /\ UNCHANGED status
  /\ UNCHANGED <<followUpFrags, handler, apiKey, mcpUrl, bodyRead,
                 openConns, log, mcpTools, completions, fullContent,
                 toolCalls, toolMessages, tcPos, nChunks, nFrags>>
  /\ UNCHANGED unitVars

\* POST from the request to the close of its stream: the configuration
\* checks, then the completion request with the messages of the body and the
\* events of the stream
Answer ==
  /\ pc = "arrived"
  /\ IF configError(handler, apiKey, mcpUrl) # ""
     THEN /\ response' = Resp("json", 500, configError(handler, apiKey, mcpUrl))
          /\ pc' = "returned"
          /\ UNCHANGED <<frames, closes, completions>>
     ELSE /\ response' = StreamResponse
          /\ completions' = Append(completions,
                              Request(buildMessages(handler, body), NoTools))
          /\ frames' \in TurnStreams
          /\ closes' = 1
          /\ pc' = "closed"
  /\ UNCHANGED <<followUpFrags, handler, client, apiKey, mcpUrl, body, bodyRead,
                 openConns, log, mcpTools, fullContent,
                 toolCalls, toolMessages, tcPos, nChunks, nFrags>>
  /\ UNCHANGED browserVars
  /\ UNCHANGED unitVars

NextTurns ==
  \/ SubmitTurn
  \/ Answer
  \/ FetchResponse
  \/ ReadFrame
  \/ ReadDone

SpecTurns == InitTurns /\ [][NextTurns]_vars

-----------------------------------------------------------------------------
(* Properties *)

FrameIdx == 1..Len(frames)
LogIdx == 1..Len(log)

\* frames of a type
FramesOf(t) == { i \in FrameIdx : frames[i].type = t }

\* the request is being served with both configuration values set
Configured == apiKey /\ mcpUrl

\* some tool was invoked (a callTool session was started)
ToolInvoked == \E i \in LogIdx : log[i].call = "callTool"

\* C1: while the API credential or the tool-provider endpoint is not
\* configured, a handled request is answered with a JSON error response of
\* status 500, and no stream frame is enqueued, the request body is not read
\* and neither the tool provider nor the completion API is called.
C1_ConfigErrorFirst ==
  ~Configured =>
    /\ pc \in {"idle", "arrived", "returned"}
    /\ ~bodyRead
    /\ frames = <<>> /\ closes = 0
    /\ log = <<>> /\ completions = <<>>
    /\ response.kind \in {"none", "json"}
    /\ (pc = "returned" =>
          /\ response.kind = "json"
          /\ response.status = 500
          /\ response.error # "")

C1_Witness ==
  /\ apiKey /\ ~mcpUrl /\ pc = "returned"
  /\ response.kind = "json" /\ response.status = 500

\* C2: with the configuration present, a request whose body is not JSON, or
\* is JSON without the messages sequence, is answered with a 400-class
\* response, and no stream is opened and no frame is emitted for it.
C2_MalformedBodyIs400 ==
  (Configured /\ body.kind \in {"invalid", "null", "noMessages"}) =>
    /\ frames = <<>>
    /\ response.kind # "stream"
    /\ (pc \in {"returned", "closed"} => response.status \in 400..499)

\* the listTools session failed at some operation
ListFailed ==
  \E i \in LogIdx : log[i].call = "listTools" /\ ~log[i].ok

\* C3 (streaming handler of part_000 for the warning): when the listTools
\* session fails, getMcpTools has returned no tools, a warning frame that
\* reports the failure has been sent, and the handler has gone on to the
\* first completion request; in every run of either handler the first
\* completion request carries a tool schema exactly if at least one tool
\* was discovered, and never an empty list.
C3_DiscoveryFailureNonFatal ==
  /\ (handler = "part_000" /\ ListFailed) =>
       /\ mcpTools = <<>>
       /\ \E i \in FramesOf("warning") :
            includes(frames[i].content, "). Proceeding without tools.")
       /\ (body.kind = "ok" => pc = "first" \/ completions # <<>>)
  /\ completions # <<>> =>
       /\ (completions[1].tools.present <=> Len(mcpTools) > 0)
       /\ (completions[1].tools.present =>
             /\ completions[1].tools.list # <<>>
             /\ Len(completions[1].tools.list) = Len(mcpTools))

C3_Witness ==
  /\ handler = "part_000" /\ ListFailed
  /\ pc = "stream1"
  /\ Len(completions) = 1 /\ completions[1].tools = NoTools

\* the first completion stream was read to its end
FirstStreamEnded ==
  \E i \in LogIdx :
    log[i].op = "stream" /\ log[i].name = "first" /\ log[i].ok

\* C4: when the first completion stream has ended having delivered no
\* tool-call fragment, no tool has been invoked, only the first completion
\* request has been issued, the frame after the last content frame is the
\* done frame (no status, warning or error frame follows a content frame),
\* done is the last frame, and the stream has been closed once.
C4_NoFragmentsThenDone ==
  (FirstStreamEnded /\ nFrags = 0) =>
    /\ ~ToolInvoked
    /\ Len(completions) = 1
    /\ pc = "closed" /\ closes = 1
    /\ frames # <<>> /\ frames[Len(frames)] = DoneFrame
    /\ Cardinality(FramesOf("done")) = 1
    /\ \A i \in FramesOf("content") :
         i < Len(frames) /\ frames[i + 1].type \in {"content", "done"}

C4_Witness ==
  /\ FirstStreamEnded /\ nFrags = 0
  /\ Cardinality(FramesOf("content")) = 2
  /\ frames[Len(frames)] = DoneFrame

\* C5: when the follow-up completion request is issued, its message list is
\* the first request's list, then the assistant message listing the
\* accumulated tool calls, then exactly one tool-result message per tool
\* call, in index order, each tagged with the id of its call - whether or
\* not an invocation failed.
C5_OneResultPerCall ==
  Len(completions) >= 2 =>
    LET m == completions[2].messages
        base == buildMessages(handler, body)
        n == Len(toolCalls)
    IN /\ n >= 1
       /\ Len(m) = Len(base) + 1 + n
       /\ SubSeq(m, 1, Len(base)) = base
       /\ m[Len(base) + 1].role = "assistant"
       /\ m[Len(base) + 1].tool_calls = toolCalls
       /\ \A i \in 1..n :
            /\ ~toolCalls[i].hole
            /\ m[Len(base) + 1 + i].role = "tool"
            /\ m[Len(base) + 1 + i].tool_call_id = toolCalls[i].id

C5_Witness ==
  /\ Len(completions) = 2
  /\ Len(toolCalls) = 2 /\ toolCalls[1].id # toolCalls[2].id
  /\ \E i \in LogIdx : log[i].call = "callTool" /\ ~log[i].ok
  /\ \E i \in LogIdx : log[i].call = "callTool" /\ log[i].op = "close"

\* both arrival orders have been merged
Merged == pos1 = Len(in1) /\ pos2 = Len(in2)

\* the fragments of s that carry index k, in their order in s
OfIndex(s, k) == SelectSeq(s, LAMBDA f : f.index = k)

\* the two orders agree on the order of the fragments of each index
SameOrderPerIndex ==
  \A k \in { in1[i].index : i \in 1..Len(in1) } : OfIndex(in1, k) = OfIndex(in2, k)

\* C6 as stated: the accumulated tool calls are the same for every arrival
\* order of the same fragments.
C6_MergeCommutative == Merged => acc1 = acc2

\* C6 amended: the accumulated tool calls are the same for every two arrival
\* orders that keep the fragments of each index in the same relative order
\* (how fragments of different indices interleave does not matter).
C6_MergeOrderPerIndex == (Merged /\ SameOrderPerIndex) => acc1 = acc2

C6_Witness ==
  /\ Merged /\ SameOrderPerIndex /\ in1 # in2
  /\ Len(acc1) = 2 /\ ~acc1[1].hole /\ acc1[1].arguments = <<"{", "}">>

\* C7: when getMcpTools or callMcpTool has returned, no connection it
\* opened is left without a close.
C7_ConnectionsClosed == openConns = 0

\* the failure of the first completion request, if it failed
FirstCreateFailures ==
  { log[i].err : i \in { j \in LogIdx :
      log[j].op = "create" /\ log[j].name = "first" /\ ~log[j].ok } }

Sig401(e) == e.status = 401 \/ includes(e.message, "401") \/ includes(e.message, "Unauthorized")
Sig429(e) == e.status = 429 \/ includes(e.message, "429")
Sig500(e) == e.status = 500 \/ includes(e.message, "500")
SigNet(e) == e.code = "ENOTFOUND" \/ includes(e.message, "ENOTFOUND")

\* C8 (streaming handler of part_000): when the first completion request
\* has failed, the stream holds exactly one error frame, it is the last
\* frame, its message is the class of the failure (the classes tested in
\* the order invalid key, rate limit, server error, network, else the
\* failure's own message), the stream has been closed once, there is no
\* done and no content frame, no tool was invoked and no other completion
\* request was issued.
C8_FirstFailureFatal ==
  \A e \in FirstCreateFailures :
    handler = "part_000" =>
      LET c == frames[Len(frames)].content IN
      /\ pc = "closed" /\ closes = 1
      /\ FramesOf("error") = {Len(frames)}
      /\ FramesOf("done") = {} /\ FramesOf("content") = {}
      /\ ~ToolInvoked
      /\ Len(completions) = 1
      /\ (Sig401(e) => c = <<"OpenAI: Invalid API key. Please check OPENAI_API_KEY.">>)
      /\ (~Sig401(e) /\ Sig429(e) =>
            c = <<"OpenAI: Rate limit exceeded. Please try again later.">>)
      /\ (~Sig401(e) /\ ~Sig429(e) /\ Sig500(e) =>
            c = <<"OpenAI: Server error. Please try again.">>)
      /\ (~Sig401(e) /\ ~Sig429(e) /\ ~Sig500(e) /\ SigNet(e) =>
            c = <<"OpenAI: Network error - cannot reach api.openai.com">>)
      /\ (~Sig401(e) /\ ~Sig429(e) /\ ~Sig500(e) /\ ~SigNet(e) =>
            /\ Head(c) = "OpenAI: "
            /\ Tail(c) = (IF e.message = <<>> THEN <<"Unknown error">> ELSE e.message))

C8_Witness ==
  /\ handler = "part_000"
  /\ \E e \in FirstCreateFailures : e.status = 429 /\ ~Sig401(e)
  /\ pc = "closed"
  /\ frames[Len(frames)].type = "error"

\* the follow-up request failed, when issued or while its stream was read
FollowUpFailed ==
  \E i \in LogIdx : log[i].name = "followup" /\ ~log[i].ok

\* C9: when the follow-up completion request has failed, an error frame
\* has been emitted, the done frame follows it as the last frame, the stream
\* has been closed once, and no third completion request was issued.
C9_FollowUpFailureThenDone ==
  FollowUpFailed =>
    /\ pc = "closed" /\ closes = 1
    /\ Len(completions) = 2
    /\ Len(frames) >= 2
    /\ frames[Len(frames)] = DoneFrame
    /\ frames[Len(frames) - 1].type = "error"

RECURSIVE ContentUpTo(_)
\* the text of the content frames among the first k frames
ContentUpTo(k) ==
  IF k = 0 THEN <<>>
  ELSE ContentUpTo(k - 1) \o (IF frames[k].type = "content" THEN frames[k].content ELSE <<>>)

\* small occurs in big as a contiguous piece
Contains(big, small) ==
  \E i \in 0..(Len(big) - Len(small)) : SubSeq(big, i + 1, i + Len(small)) = small

\* C10: once the page has processed an error frame that came after content
\* frames, the text of those content frames is still part of a displayed
\* message.
C10_ContentSurvivesError ==
  \A k \in 1..nRead :
    (frames[k].type = "error" /\ ContentUpTo(k - 1) # <<>>) =>
      \E i \in 1..Len(messages) : Contains(messages[i].content, ContentUpTo(k - 1))

\* the streaming handler has served a request to its end, the tool provider
\* listed no tools, and the first completion request and its stream succeeded
NoToolsRun ==
  /\ handler = "part_000" /\ pc = "closed"
  /\ ~ListFailed /\ mcpTools = <<>>
  /\ FirstStreamEnded

\* from frame k on the stream holds content frames and then done, its last frame
ContentThenDone(k) ==
  /\ k <= Len(frames)
  /\ frames[Len(frames)] = DoneFrame
  /\ \A i \in k..(Len(frames) - 1) : frames[i].type = "content"

\* C11 as stated: for a request whose tool provider lists no tools and whose
\* completion succeeds, the frames are the connecting status, then one
\* warning or status about the tools, then content frames, then done, with
\* no other frame between these and no error frame.
C11_NoToolsOrder ==
  NoToolsRun =>
    /\ Len(frames) >= 3
    /\ frames[1] = Frame("status", <<"Connecting to MCP server...">>)
    /\ frames[2].type \in {"warning", "status"}
    /\ ContentThenDone(3)
    /\ FramesOf("error") = {}

\* C11 amended: for such a request whose completion stream yields no tool
\* call, the frames are the status "Connecting to MCP server...", then the
\* warning that no tools are available (never a status), then the status
\* "Connecting to OpenAI...", then zero or more content frames, then done;
\* no other frame and no error frame.
C11_NoToolsOrderWithStatus ==
  (NoToolsRun /\ toolCalls = <<>>) =>
    /\ Len(frames) >= 4
    /\ frames[1] = Frame("status", <<"Connecting to MCP server...">>)
    /\ frames[2] = Frame("warning", <<"MCP: No tools available from server.">>)
    /\ frames[3] = Frame("status", <<"Connecting to OpenAI...">>)
    /\ ContentThenDone(4)
    /\ FramesOf("error") = {}

C11_Witness ==
  /\ NoToolsRun /\ toolCalls = <<>>
  /\ Len(frames) = 6 /\ frames[4].type = "content" /\ frames[5].type = "content"

\* the positions of the system-role messages of a message list
SystemAt(m) == { i \in 1..Len(m) : m[i].role = "system" }

\* C12: in every completion request issued (first and follow-up), exactly
\* one message has the role system and it is the first of the list, whatever
\* the message history the caller sent.
C12_OneSystemMessageFirst ==
  \A k \in 1..Len(completions) : SystemAt(completions[k].messages) = {1}

\* the tool calls the loop has gone through
Processed == 1..tcPos

\* the argument text of tool call i is not valid JSON
NotJson(i) ==
  ~toolCalls[i].hole /\ toolCalls[i].arguments # <<"{", "}">>

\* the argument text of tool call i is not empty and not valid JSON
Malformed(i) == NotJson(i) /\ toolCalls[i].arguments # <<>>

\* tool invocations started so far
Invocations == { j \in LogIdx : log[j].call = "callTool" /\ log[j].op = "connect" }

\* the tool-result message of tool call i
ResultOf(i) == toolMessages[Len(buildMessages(handler, body)) + 1 + i]

\* the tool-result message of call i carries the error text of the catch
IsParseErrorResult(i) ==
  \A m \in {ResultOf(i)} :
    /\ m.role = "tool"
    /\ m.tool_call_id = toolCalls[i].id
    /\ Head(m.content) = (IF handler = "part_000" THEN "[" ELSE "Error: ")
    /\ includes(m.content, "Unexpected end of JSON input")

\* the run ended inside the tool loop, before the follow-up request
AbortedInToolLoop ==
  pc = "closed" /\ FirstStreamEnded /\ toolCalls # <<>> /\ Len(completions) = 1

\* C13 as stated: a tool call whose argument text is not valid JSON is never
\* invoked (its arguments are not replaced by an empty object): it gets one
\* tool-result message with an error text tagged with its id, the turn is
\* not aborted and the loop and the follow-up request go on.
C13_MalformedArgsReported ==
  /\ Cardinality(Invocations) = Cardinality({ i \in Processed : ~toolCalls[i].hole /\ ~NotJson(i) })
  /\ \A i \in Processed : NotJson(i) => IsParseErrorResult(i)
  /\ Len(toolMessages) = (IF toolMessages = <<>> THEN 0
                          ELSE Len(buildMessages(handler, body)) + 1 + tcPos)
  /\ (AbortedInToolLoop => tcPos < Len(toolCalls) /\ toolCalls[tcPos + 1].hole)

\* C13 amended: a tool call whose argument text is not empty and not valid
\* JSON is not invoked and gets exactly one tool-result message with the
\* error text of the parse failure, tagged with its id; a tool call with an
\* empty argument text is invoked with an empty object; the loop goes on to
\* the remaining calls and the follow-up request (the run ends inside the
\* loop only at an array slot that holds no tool call).
C13_NonEmptyMalformedArgsReported ==
  /\ Cardinality(Invocations) = Cardinality({ i \in Processed : ~toolCalls[i].hole /\ ~Malformed(i) })
  /\ \A i \in Processed : Malformed(i) => IsParseErrorResult(i)
  /\ Len(toolMessages) = (IF toolMessages = <<>> THEN 0
                          ELSE Len(buildMessages(handler, body)) + 1 + tcPos)
  /\ (AbortedInToolLoop => tcPos < Len(toolCalls) /\ toolCalls[tcPos + 1].hole)

C13_Witness ==
  /\ tcPos = 2 /\ Malformed(1) /\ ~toolCalls[2].hole /\ toolCalls[2].arguments = <<>>
  /\ Cardinality(Invocations) = 1
  /\ Len(completions) = 2

\* position in the log of the follow-up request
FollowUpAt ==
  { i \in LogIdx : log[i].op = "create" /\ log[i].name = "followup" }

\* C14: at most two completion requests are issued in a run; the second is
\* issued only after the tool branch (the first stream has ended with tool
\* calls accumulated, the loop has gone through all of them), and carries no
\* tool schema; tool-call fragments the follow-up stream delivers cause no
\* tool invocation (every invocation precedes the follow-up request) and no
\* third request.
C14_OneToolRoundTrip ==
  /\ Len(completions) <= 2
  /\ Cardinality(FollowUpAt) = Len(completions) - (IF completions = <<>> THEN 0 ELSE 1)
  /\ Len(completions) = 2 =>
       /\ FirstStreamEnded
       /\ toolCalls # <<>> /\ tcPos = Len(toolCalls)
       /\ ~completions[2].tools.present
       /\ pc \in {"stream2", "closed"}
       /\ \A i \in FollowUpAt : \A j \in Invocations : j < i
  /\ followUpFrags > 0 =>
       /\ Len(completions) = 2
       /\ Cardinality(Invocations) <= Len(toolCalls)

C14_Witness ==
  /\ Len(completions) = 2 /\ pc = "closed"
  /\ followUpFrags > 0
  /\ Cardinality(Invocations) = 1
  /\ frames[Len(frames)] = DoneFrame

\* the failures thrown inside the stream's start() that neither the catch of
\* the first request nor the catch of the follow-up handles: the first
\* stream failing while read, messages.map on a body without messages, and
\* the tool loop reaching an array slot that holds no tool call
OuterFailures ==
  { log[i].err : i \in { j \in LogIdx :
      log[j].op = "stream" /\ log[j].name = "first" /\ ~log[j].ok } }
  \cup (IF body.kind = "noMessages" /\ pc = "closed" THEN {PropertyError("map")} ELSE {})
  \cup (IF AbortedInToolLoop THEN {PropertyError("id")} ELSE {})

SigNetwork(e) ==
  includes(e.message, "fetch") \/ includes(e.message, "network")
    \/ includes(e.message, "ENOTFOUND")
SigParse(e) == includes(e.message, "JSON")

\* C15 (streaming handler of part_000): a failure thrown inside the stream
\* other than the failures of the first and the follow-up request is caught
\* by the outermost catch: the stream holds exactly one error frame, it is the
\* last frame and no done frame was sent, its class is network, parse or
\* unknown according to the message text (tested in this order), the stream
\* has been closed once, and POST has returned the streaming response.
C15_OuterCatchTerminal ==
  \A e \in OuterFailures :
    handler = "part_000" =>
      LET f == frames[Len(frames)] IN
      /\ pc = "closed" /\ closes = 1
      /\ response = StreamResponse
      /\ FramesOf("error") = {Len(frames)}
      /\ FramesOf("done") = {}
      /\ f.errorType = (IF SigNetwork(e) THEN "network"
                        ELSE IF SigParse(e) THEN "parse" ELSE "unknown")
      /\ (SigNetwork(e) =>
            f.content = <<"Network error: Unable to reach external services. ">> \o e.message)
      /\ (~SigNetwork(e) /\ SigParse(e) =>
            f.content = <<"Data parsing error: ">> \o e.message)
      /\ (~SigNetwork(e) /\ ~SigParse(e) => f.content = e.message)

C15_Witness ==
  /\ handler = "part_000"
  /\ \E e \in OuterFailures : SigParse(e) /\ ~SigNetwork(e)
  /\ FramesOf("content") # {}
  /\ frames[Len(frames)].type = "error" /\ frames[Len(frames)].errorType = "parse"

\* the log entry is the end of the first stream, read to its end
IsFirstStreamEnd(ev) == ev.op = "stream" /\ ev.name = "first" /\ ev.ok

\* the log entry is the issue of the first (name "first") or of the
\* follow-up (name "followup") completion request
IsCreate(ev, name) == ev.op = "create" /\ ev.name = name

\* C17: the discovery session is over before the first completion request
\* is issued (the log entries before the request are those of the session);
\* the first stream has been read to its end before any tool is invoked; and
\* when the follow-up request is issued every tool call has been gone
\* through, every invocation's session is over and every tool result is in
\* the message list the request carries.
C17_StageOrder ==
  /\ completions # <<>> =>
       \E p \in LogIdx :
         /\ IsCreate(log[p], "first") /\ p > 1
         /\ \A i \in LogIdx : log[i].call = "listTools" <=> i < p
  /\ \A j \in LogIdx :
       log[j].call = "callTool" => \E i \in 1..(j - 1) : IsFirstStreamEnd(log[i])
  /\ Len(completions) = 2 =>
       /\ tcPos = Len(toolCalls)
       /\ \E p \in LogIdx :
            /\ IsCreate(log[p], "followup")
            /\ \A i \in LogIdx : log[i].call = "callTool" => i < p
       /\ \A n \in {Len(buildMessages(handler, body))} :
            /\ Len(completions[2].messages) = n + 1 + Len(toolCalls)
            /\ \A k \in 1..Len(toolCalls) :
                 completions[2].messages[n + 1 + k].role = "tool"

C17_Witness ==
  /\ Len(completions) = 2
  /\ Len(toolCalls) = 2 /\ Cardinality(Invocations) = 2
  /\ pc = "stream2"

\* the system prompt has been built
PromptBuilt == tonePrompt # <<>>

\* C16: for every tone that is not one of professional, friendly and
\* concise, getTonePrompt returns the professional text, and for every
\* language code that is not one of the nine codes (an absent code included)
\* getLanguageName returns the default language name.
C16_UnknownFallsBack ==
  PromptBuilt =>
    /\ (reqTone \notin {"professional", "friendly", "concise"} =>
          tonePrompt = <<"Respond in a professional, formal manner.">>)
    /\ (reqLanguage \notin {"en", "es", "fr", "de", "pt", "zh", "ja", "ko", "ar"} =>
          languageName = <<"English">>)

\* everything sent has been read
AllRead == nSent = Len(toSend) /\ nDelivered = Len(wire)

\* C18: for every kind of event and every payload text (newlines, quotes,
\* backslashes and the marker included), the text send enqueues splits at
\* the terminator into exactly one line and an empty rest, the line starts
\* with the marker, and JSON.parse of the line without its marker gives the
\* event sent; and once the page has read the text it has parsed exactly this
\* event.
C18_FrameRoundTrip ==
  /\ nSent = 1 =>
       \A lines \in {Split(wire, <<>>, <<>>)} :
         /\ Len(lines) = 2 /\ lines[2] = <<>>
         /\ Head(lines[1]) = Marker
         /\ \A p \in {JSONparse(Tail(lines[1]))} :
              p.ok /\ ObjectOf(p.fields) = toSend[1]
  /\ AllRead => (received = toSend /\ buffer = <<>>)

C18_Witness ==
  /\ AllRead /\ Len(toSend) = 1
  /\ toSend[1].type = "content" /\ toSend[1].content = <<NL, NL>>
  /\ received = toSend

RECURSIVE ContentOf(_)
\* the content payloads of the events, concatenated in order
ContentOf(evs) ==
  IF evs = <<>> THEN <<>>
  ELSE (IF Head(evs).type = "content" THEN Head(evs).content ELSE <<>>)
         \o ContentOf(Tail(evs))

\* C19: however the text is cut into chunks, the page handles the events
\* sent one by one in the order sent (the events handled so far are the
\* first events sent), it has handled all of them when the stream has been
\* read, and then the content of the message of the turn is the
\* concatenation of the content payloads in the order sent.
C19_ChunkingInvisible ==
  /\ Len(received) <= Len(toSend)
  /\ received = SubSeq(toSend, 1, Len(received))
  /\ AllRead =>
       /\ received = toSend
       /\ messages[AssistantId].content = ContentOf(toSend)

RECURSIVE LastSupplied(_)
\* the last non-empty value of a sequence of ids or names, "" if there is none
LastSupplied(vals) ==
  IF vals = <<>> THEN ""
  ELSE IF vals[Len(vals)] # "" THEN vals[Len(vals)]
  ELSE LastSupplied(SubSeq(vals, 1, Len(vals) - 1))

RECURSIVE Pieces(_)
\* the argument pieces of a sequence of fragments, concatenated in order
Pieces(fs) ==
  IF fs = <<>> THEN <<>> ELSE Head(fs).arguments \o Pieces(Tail(fs))

\* acc is what the claim says of the first n fragments of s: an entry for
\* exactly the indices that arrived (the slots of the other indices below
\* the largest are unassigned), and in the entry of index k the last id and
\* the last name a fragment of index k supplied and the argument pieces of
\* the fragments of index k in arrival order
MergedByIndex(s, n, acc) ==
  LET idx == { s[i].index : i \in 1..n } \ {Undefined} IN
  /\ \A k \in idx : k + 1 <= Len(acc)
  /\ \A k \in 0..(Len(acc) - 1) :
       IF k \in idx
       THEN LET fs == OfIndex(SubSeq(s, 1, n), k) IN
            /\ ~acc[k + 1].hole
            /\ acc[k + 1].id = LastSupplied([i \in 1..Len(fs) |-> fs[i].id])
            /\ acc[k + 1].name = LastSupplied([i \in 1..Len(fs) |-> fs[i].name])
            /\ acc[k + 1].arguments = Pieces(fs)
       ELSE acc[k + 1].hole /\ \E j \in idx : j > k

\* C20: after any number of fragments merged in arrival order, the
\* accumulator holds an entry for every index a fragment carried (created by
\* the first fragment of the index); the id and the name of an entry are the
\* last ones a fragment of its index supplied (a fragment with an absent or
\* empty id or name leaves them as they are); its arguments text is the
\* concatenation of the argument pieces of the fragments of its index in
\* arrival order; fragments of other indices and fragments without an index
\* change nothing in it.
C20_MergeByIndex ==
  /\ MergedByIndex(in1, pos1, acc1)
  /\ MergedByIndex(in2, pos2, acc2)

C20_Witness ==
  /\ pos1 = 3
  /\ in1[1] = Frag(0, "c1", "A", <<"{">>)
  /\ in1[2].index = Undefined
  /\ in1[3] = Frag(0, "", "", <<"}">>)
  /\ acc1 = <<Call("c1", "A", <<"{", "}">>)>>

-----------------------------------------------------------------------------
(* C21 *)

\* the roles of a message of a completion request
ChatRoles == {"user", "assistant", "system", "tool"}

\* the roles of the messages of a list
RolesOf(ms) == { ms[i].role : i \in 1..Len(ms) }

\* C21: across the turns of the page - turns that ended in an error event or
\* a connection failure and turns whose answer stayed empty included - every
\* message of the request body the page posts, and every message of the
\* completion request the handler makes of it, has one of the roles user,
\* assistant, system, tool
C21_RolesSent ==
  /\ body.kind = "ok" => RolesOf(body.messages) \subseteq ChatRoles
  /\ \A i \in 1..Len(completions) :
       RolesOf(completions[i].messages) \subseteq ChatRoles


-----------------------------------------------------------------------------
(* C22 *)

\* the handler has returned a stream as its response
StreamOpened == response = StreamResponse

\* the last event enqueued
LastFrame == frames[Len(frames)]

\* the state of a stream: closed at most once and only at the end of the
\* handler, which an opened stream reaches in no other way; once closed it
\* holds at most one done event and ends with a done or an error event
StreamWellFormed ==
  /\ closes <= 1
  /\ closes = 1 => pc = "closed"
  /\ StreamOpened => pc # "returned"
  /\ pc = "closed" =>
       /\ closes = 1
       /\ Cardinality(FramesOf("done")) <= 1
       /\ frames # <<>>
       /\ LastFrame.type \in {"done", "error"}

\* a step from a state in which the stream is closed enqueues nothing and
\* closes nothing
QuietAfterClose == closes >= 1 => (frames' = frames /\ closes' = closes)

\* C22: every opened event stream terminates in a well-formed way on every
\* path of either handler: the controller is closed exactly once, no frame
\* is enqueued after the close, at most one done event is emitted, and the
\* last frame before the close is a done event or an error event
C22_StreamTerminatesWellFormed == []StreamWellFormed /\ [][QuietAfterClose]_vars

\* a stream of the earlier handler that carried content and was closed by
\* the catch
C22_Witness ==
  /\ pc = "closed" /\ closes = 1 /\ StreamOpened
  /\ handler = "route"
  /\ LastFrame.type = "error"
  /\ FramesOf("content") # {}

-----------------------------------------------------------------------------
(* C23 *)

\* no completion request has failed, when issued or while its stream was read
NoCompletionFailure ==
  \A i \in LogIdx : log[i].call = "completion" => log[i].ok

\* the slots of toolCalls that hold a tool call
Accumulated == { i \in 1..Len(toolCalls) : ~toolCalls[i].hole }

\* the tool call of slot i has a tool-result message tagged with its id
HasResult(i) ==
  \E k \in 1..Len(toolMessages) :
    /\ toolMessages[k].role = "tool"
    /\ toolMessages[k].tool_call_id = toolCalls[i].id

\* C23: whatever indices the tool-call fragments of the first completion
\* stream carry - index sets with a lower index never received included -
\* when the run of the streaming handler has ended and no completion request
\* has failed, every accumulated tool call has its tool-result message, the
\* follow-up request has been issued, and the stream ends with the done
\* event and holds no error event
C23_AnyIndicesThenDone ==
  (/\ handler = "part_000" /\ pc = "closed"
   /\ FirstStreamEnded /\ toolCalls # <<>>
   /\ NoCompletionFailure)
  => /\ \A i \in Accumulated : HasResult(i)
     /\ Len(completions) = 2
     /\ LastFrame = DoneFrame
     /\ FramesOf("error") = {}

====
